---- MODULE Spec2Model ----
(***************************************************************************)
(* Model of src/src/index.ts: an MCP server that registers four tools      *)
(* (greeting, calc, current-time, generate-image), one prompt              *)
(* (code_review) and one resource (server-info).                           *)
(*                                                                         *)
(* Representation.                                                         *)
(*  - A JavaScript string is a sequence of characters.  An ASCII character *)
(*    is a one-character TLA+ string, any other character is written as    *)
(*    its code point, "U+C548" (so is the backquote, "U+0060").            *)
(*  - A JavaScript value is a record tagged with its typeof: JStr, JNum,   *)
(*    JUndefined, JFunction, JObject.                                      *)
(*  - A JavaScript number is an exact rational n/d in lowest terms, d > 0. *)
(*    The inputs are integers; a quotient is only drawn when its decimal   *)
(*    expansion terminates, which is where Number::toString prints the     *)
(*    exact value (see Printable).                                         *)
(*  - A handler result is a record that has exactly the keys the object    *)
(*    literal in the source has (content, structuredContent, isError).     *)
(*                                                                         *)
(* Specifications.                                                         *)
(*  - Spec: up to MaxReqs requests of every kind, the generate-image       *)
(*    invocations suspended at their awaits while other requests are       *)
(*    served.                                                              *)
(*  - SingleSpec: one call of greeting, calc or current-time, over the     *)
(*    full ranges of the arguments.                                        *)
(***************************************************************************)
EXTENDS Integers, Sequences, FiniteSets, TLC

(* ------------------------------ bounds -------------------------------- *)
\* calc's num1 ranges over -MaxNum1 .. MaxNum1, num2 over -MaxNum2 .. MaxNum2
MaxNum1 == 6
MaxNum2 == 3
\* number of requests served in one behaviour
MaxReqs == 2

(* --------------------------- JavaScript values ------------------------ *)
JStr(s) == [t |-> "string", v |-> s]
JUndefined == [t |-> "undefined"]
\* Object.prototype.constructor, the function Object
JFunction == [t |-> "function", name |-> "Object"]
\* Object.prototype itself, reached through the __proto__ accessor
JObject == [t |-> "object", class |-> "Object"]

RECURSIVE GCD(_, _)
GCD(a, b) == IF b = 0 THEN a ELSE GCD(b, a % b)

Abs(n) == IF n < 0 THEN -n ELSE n

\* the number n/d (d # 0) in lowest terms with a positive denominator
JNum(n, d) ==
    LET g == GCD(Abs(n), Abs(d))
        s == IF d < 0 THEN -1 ELSE 1
    IN  [t |-> "number", n |-> (s * n) \div g, d |-> Abs(d) \div g]

\* the values a division by zero produces, kept apart from the rationals by
\* their zero denominator
JInfinity(sign) == [t |-> "number", n |-> sign, d |-> 0]
JNaN == [t |-> "number", n |-> 0, d |-> 0]

typeof(v) == v.t

\* ToBoolean, as used by the || operator
Truthy(v) ==
    CASE v.t = "undefined" -> FALSE
      [] v.t = "string"    -> v.v # << >>
      [] v.t = "number"    -> v.n # 0  \* 0 and NaN are falsy
      [] OTHER             -> TRUE

(* ------------------------------ strings ------------------------------- *)
Upper == <<"A", "B", "C", "D", "E", "F", "G", "H", "I", "J", "K", "L", "M",
           "N", "O", "P", "Q", "R", "S", "T", "U", "V", "W", "X", "Y", "Z">>
Lower == <<"a", "b", "c", "d", "e", "f", "g", "h", "i", "j", "k", "l", "m",
           "n", "o", "p", "q", "r", "s", "t", "u", "v", "w", "x", "y", "z">>

LowerChar(c) ==
    IF \E i \in 1..26 : Upper[i] = c
    THEN Lower[CHOOSE i \in 1..26 : Upper[i] = c]
    ELSE c

\* String.prototype.toLowerCase on the characters the model uses
toLowerCase(s) == [i \in 1..Len(s) |-> LowerChar(s[i])]

\* s occurs in text as a contiguous substring
Contains(text, s) ==
    \E i \in 1..(Len(text) - Len(s) + 1) : SubSeq(text, i, i + Len(s) - 1) = s

Digit(k) == <<"0", "1", "2", "3", "4", "5", "6", "7", "8", "9">>[k + 1]

\* decimal digits of a natural number
RECURSIVE NatDigits(_)
NatDigits(n) == IF n < 10 THEN <<Digit(n)>> ELSE Append(NatDigits(n \div 10), Digit(n % 10))

\* digits after the decimal point of r/d (0 <= r < d), for a terminating expansion
RECURSIVE FracDigits(_, _)
FracDigits(r, d) ==
    IF r = 0 THEN << >>
    ELSE <<Digit((r * 10) \div d)>> \o FracDigits((r * 10) % d, d)

RECURSIVE StripFactor(_, _)
StripFactor(d, p) == IF d % p = 0 THEN StripFactor(d \div p, p) ELSE d

\* n/d has a terminating decimal expansion: with the small operands of the
\* model it has fewer than 15 significant digits, so it is the shortest
\* decimal that reads back as the same double, which is what
\* Number::toString prints
Printable(x) == x.d # 0 /\ StripFactor(StripFactor(x.d, 2), 5) = 1

\* Number::toString
NumberToString(x) ==
    IF x.d = 0
    THEN IF x.n = 0 THEN <<"N", "a", "N">>
         ELSE (IF x.n < 0 THEN <<"-">> ELSE << >>)
              \o <<"I", "n", "f", "i", "n", "i", "t", "y">>
    ELSE LET a == Abs(x.n)
             int == NatDigits(a \div x.d)
             frac == FracDigits(a % x.d, x.d)
         IN  (IF x.n < 0 THEN <<"-">> ELSE << >>)
             \o int
             \o (IF frac = << >> THEN << >> ELSE <<".">> \o frac)

\* ToString, as applied by a template literal `${v}`
JSToString(v) ==
    CASE v.t = "string"    -> v.v
      [] v.t = "number"    -> NumberToString(v)
      [] v.t = "undefined" -> <<"u", "n", "d", "e", "f", "i", "n", "e", "d">>
      [] v.t = "function"  ->
            <<"f", "u", "n", "c", "t", "i", "o", "n", " ", "O", "b", "j", "e",
              "c", "t", "(", ")", " ", "{", " ", "[", "n", "a", "t", "i", "v",
              "e", " ", "c", "o", "d", "e", "]", " ", "}">>
      [] v.t = "object" /\ v.class = "Error" ->
            <<"E", "r", "r", "o", "r", ":", " ">> \o v.message
      [] OTHER             ->
            <<"[", "o", "b", "j", "e", "c", "t", " ", "O", "b", "j", "e", "c",
              "t", "]">>

(* --------------------------- greeting table --------------------------- *)
korean     == <<"k", "o", "r", "e", "a", "n">>
english    == <<"e", "n", "g", "l", "i", "s", "h">>
japanese   == <<"j", "a", "p", "a", "n", "e", "s", "e">>
chinese    == <<"c", "h", "i", "n", "e", "s", "e">>
spanish    == <<"s", "p", "a", "n", "i", "s", "h">>
french     == <<"f", "r", "e", "n", "c", "h">>
german     == <<"g", "e", "r", "m", "a", "n">>
italian    == <<"i", "t", "a", "l", "i", "a", "n">>
portuguese == <<"p", "o", "r", "t", "u", "g", "u", "e", "s", "e">>
russian    == <<"r", "u", "s", "s", "i", "a", "n">>

LanguageKeys == {korean, english, japanese, chinese, spanish, french, german,
                 italian, portuguese, russian}

\* the object literal bound to const greetings
greetingsTable ==
    [k \in LanguageKeys |->
        CASE k = korean     -> <<"U+C548", "U+B155", "U+D558", "U+C138", "U+C694">>
          [] k = english    -> <<"H", "e", "l", "l", "o">>
          [] k = japanese   -> <<"U+3053", "U+3093", "U+306B", "U+3061", "U+306F">>
          [] k = chinese    -> <<"U+4F60", "U+597D">>
          [] k = spanish    -> <<"H", "o", "l", "a">>
          [] k = french     -> <<"B", "o", "n", "j", "o", "u", "r">>
          [] k = german     -> <<"H", "a", "l", "l", "o">>
          [] k = italian    -> <<"C", "i", "a", "o">>
          [] k = portuguese -> <<"O", "l", "U+00E1">>
          [] OTHER          -> <<"U+041F", "U+0440", "U+0438", "U+0432", "U+0435", "U+0442">>]

constructorKey == <<"c", "o", "n", "s", "t", "r", "u", "c", "t", "o", "r">>
protoKey       == <<"_", "_", "p", "r", "o", "t", "o", "_", "_">>

\* greetings[key]: property read on a plain object.  An own property wins;
\* otherwise the lookup continues on Object.prototype, whose only property
\* names without an upper-case letter (all a lower-cased key can hit) are
\* constructor and __proto__; anything else reads as undefined.
GetProperty(obj, key) ==
    IF key \in DOMAIN obj THEN JStr(obj[key])
    ELSE IF key = constructorKey THEN JFunction
    ELSE IF key = protoKey THEN JObject
    ELSE JUndefined

TextItem(s) == [type |-> "text", text |-> s]

\* greetingHandler with the message itself returned as structured content
greetingHandlerBareOutput(greetings, args) ==
    LET lang == toLowerCase(args.language.v)
        looked == GetProperty(greetings, lang)
        greetingWord == IF Truthy(looked) THEN looked ELSE GetProperty(greetings, english)
        message == JSToString(greetingWord) \o <<",", " ">> \o JSToString(args.name) \o <<"!">>
    IN  [content |-> <<TextItem(message)>>, structuredContent |-> JStr(message)]

\* the greeting tool's callback
greetingHandler(greetings, args) ==
    LET lang == toLowerCase(args.language.v)
        looked == GetProperty(greetings, lang)
        greetingWord == IF Truthy(looked) THEN looked ELSE GetProperty(greetings, english)
        message == JSToString(greetingWord) \o <<",", " ">> \o JSToString(args.name) \o <<"!">>
        output == [greeting |-> JStr(message)]
    IN  [content |-> <<TextItem(message)>>, structuredContent |-> output]

(* -------------------------------- calc -------------------------------- *)
Plus   == <<"+">>
Minus  == <<"-">>
Times  == <<"*">>
Divide == <<"/">>

NumAdd(a, b) == JNum(a.n * b.d + b.n * a.d, a.d * b.d)
NumSub(a, b) == JNum(a.n * b.d - b.n * a.d, a.d * b.d)
\* NumMul with the operator mistyped as +
NumMulMistyped(a, b) == JNum(a.n * b.d + b.n * a.d, a.d * b.d)
NumMul(a, b) == JNum(a.n * b.n, a.d * b.d)
\* a / b never throws: x / 0 is an infinity and 0 / 0 is NaN
NumDiv(a, b) ==
    IF b.n # 0 THEN JNum(a.n * b.d, a.d * b.n)
    ELSE IF a.n = 0 THEN JNaN
    ELSE JInfinity(IF a.n < 0 THEN -1 ELSE 1)

divisionByZeroText ==
    <<"U+C624", "U+B958", ":", " ", "0", "U+C73C", "U+B85C", " ", "U+B098",
      "U+B20C", " ", "U+C218", " ", "U+C5C6", "U+C2B5", "U+B2C8", "U+B2E4">>

\* calcHandler with the zero check moved in front of the switch
calcHandlerZeroCheckFirst(args) ==
    LET num1 == args.num1
        num2 == args.num2
        operator == args.operator
        result ==
            CASE operator.v = Plus   -> NumAdd(num1, num2)
              [] operator.v = Minus  -> NumSub(num1, num2)
              [] operator.v = Times  -> JNum(num1.n * num2.n, num1.d * num2.d)
              [] operator.v = Divide -> NumDiv(num1, num2)
              [] OTHER               -> JUndefined
        message == JSToString(num1) \o <<" ">> \o JSToString(operator) \o <<" ">>
                   \o JSToString(num2) \o <<" ", "=", " ">> \o JSToString(result)
    IN  IF num2.n = 0
        THEN [content |-> <<TextItem(divisionByZeroText)>>, isError |-> TRUE]
        ELSE [content |-> <<TextItem(message)>>,
              structuredContent |-> [result |-> result]]

\* the calc tool's callback.  result is declared without an initialiser, so
\* it stays undefined when no case of the switch matches.
calcHandler(args) ==
    LET num1 == args.num1
        num2 == args.num2
        operator == args.operator
        result ==
            CASE operator.v = Plus   -> NumAdd(num1, num2)
              [] operator.v = Minus  -> NumSub(num1, num2)
              [] operator.v = Times  -> NumMul(num1, num2)
              [] operator.v = Divide -> NumDiv(num1, num2)
              [] OTHER               -> JUndefined
        message == JSToString(num1) \o <<" ">> \o JSToString(operator) \o <<" ">>
                   \o JSToString(num2) \o <<" ", "=", " ">> \o JSToString(result)
    IN  IF operator.v = Divide /\ num2.n = 0
        THEN [content |-> <<TextItem(divisionByZeroText)>>, isError |-> TRUE]
        ELSE [content |-> <<TextItem(message)>>,
              structuredContent |-> [result |-> result]]

(* ---------------------------- current-time ---------------------------- *)
tzUTC     == <<"U", "T", "C">>
tzSeoul   == <<"A", "s", "i", "a", "/", "S", "e", "o", "u", "l">>
tzNewYork == <<"A", "m", "e", "r", "i", "c", "a", "/", "N", "e", "w", "_", "Y", "o", "r", "k">>

\* the zones the runtime knows, with their offset from UTC in hours at the
\* instants of the model
ZoneOffset ==
    [z \in {tzUTC, tzSeoul, tzNewYork} |->
        CASE z = tzUTC -> 0 [] z = tzSeoul -> 9 [] OTHER -> -5]

\* Intl.DateTimeFormat accepts a zone name in any letter case and throws a
\* RangeError for a name it does not know
IsValidTimeZone(timezone) ==
    \E z \in DOMAIN ZoneOffset : toLowerCase(z) = toLowerCase(timezone)

CanonicalZone(timezone) ==
    CHOOSE z \in DOMAIN ZoneOffset : toLowerCase(z) = toLowerCase(timezone)

\* the values new Date() can take: instants in UTC, none within a day of a
\* month boundary
Instants ==
    { [year |-> 2025, month |-> 11, day |-> 27, hour |-> 14, minute |-> 3, second |-> 5],
      [year |-> 2025, month |-> 11, day |-> 27, hour |-> 20, minute |-> 30, second |-> 0],
      [year |-> 2026, month |-> 1, day |-> 2, hour |-> 3, minute |-> 0, second |-> 59] }

\* the wall clock of instant now in the zone
LocalTime(now, timezone) ==
    LET h == now.hour + ZoneOffset[CanonicalZone(timezone)]
    IN  IF h >= 24 THEN [now EXCEPT !.day = @ + 1, !.hour = h - 24]
        ELSE IF h < 0 THEN [now EXCEPT !.day = @ - 1, !.hour = h + 24]
        ELSE [now EXCEPT !.hour = h]

\* a field formatted as '2-digit'
TwoDigit(n) == IF n < 10 THEN <<"0">> \o NatDigits(n) ELSE NatDigits(n)

\* ko-KR, year numeric, month and day 2-digit: "2025. 11. 27."
FormatDate(l) ==
    NatDigits(l.year) \o <<".", " ">> \o TwoDigit(l.month) \o <<".", " ">>
    \o TwoDigit(l.day) \o <<".">>

\* ko-KR, hour, minute and second 2-digit, hour12 false: "14:03:05"
FormatTime(l) ==
    TwoDigit(l.hour) \o <<":">> \o TwoDigit(l.minute) \o <<":">> \o TwoDigit(l.second)

\* ko-KR, all six fields: "2025. 11. 27. 14:03:05"
FormatDateTime(l) == FormatDate(l) \o <<" ">> \o FormatTime(l)

invalidTimezoneText ==
    <<"U+C624", "U+B958", ":", " ", "U+C720", "U+D6A8", "U+D558", "U+C9C0", " ",
      "U+C54A", "U+C740", " ", "U+D0C0", "U+C784", "U+C874", "U+C785", "U+B2C8",
      "U+B2E4", " ", "-", " ">>

clockPrefix == <<"U+1F550", " ">>
clockInfix  == <<" ", "U+D604", "U+C7AC", " ", "U+C2DC", "U+AC04", ":", " ">>

\* currentTimeHandler reporting the zone name as the runtime resolved it
currentTimeHandlerResolvedZone(args, now) ==
    LET timezone == args.timezone
    IN  IF IsValidTimeZone(timezone.v)
        THEN LET l == LocalTime(now, timezone.v)
                 datetime == FormatDateTime(l)
                 date == FormatDate(l)
                 time == FormatTime(l)
                 message == clockPrefix \o JSToString(timezone) \o clockInfix \o datetime
                 output == [timezone |-> JStr(CanonicalZone(timezone.v)),
                            datetime |-> JStr(datetime),
                            date |-> JStr(date), time |-> JStr(time)]
             IN  [content |-> <<TextItem(message)>>, structuredContent |-> output]
        ELSE [content |-> <<TextItem(invalidTimezoneText \o JSToString(timezone))>>,
              isError |-> TRUE]

\* the current-time tool's callback, with now the value of new Date()
currentTimeHandler(args, now) ==
    LET timezone == args.timezone
    IN  IF IsValidTimeZone(timezone.v)
        THEN LET l == LocalTime(now, timezone.v)
                 datetime == FormatDateTime(l)
                 date == FormatDate(l)
                 time == FormatTime(l)
                 message == clockPrefix \o JSToString(timezone) \o clockInfix \o datetime
                 output == [timezone |-> timezone, datetime |-> JStr(datetime),
                            date |-> JStr(date), time |-> JStr(time)]
             IN  [content |-> <<TextItem(message)>>, structuredContent |-> output]
        ELSE \* the constructor threw; the catch block answers
             [content |-> <<TextItem(invalidTimezoneText \o JSToString(timezone))>>,
              isError |-> TRUE]

(* ----------------------------- code_review ---------------------------- *)

\* the template literal up to ${langInfo}

reviewHead ==
    <<"U+B2E4", "U+C74C", " ", "U+CF54", "U+B4DC", "U+B97C", " ", "U+B9AC",
      "U+BDF0", "U+D574", "U+C8FC", "U+C138", "U+C694", ".", " ", "U+C544",
      "U+B798", " ", "U+D56D", "U+BAA9", "U+B4E4", "U+C744", " ", "U+C911",
      "U+C810", "U+C801", "U+C73C", "U+B85C", " ", "U+AC80", "U+D1A0",
      "U+D574", "U+C8FC", "U+C138", "U+C694", ":", "\n", "\n", "1", ".",
      " ", "U+1F41B", " ", "*", "*", "U+BC84", "U+ADF8", " ", "U+BC0F",
      " ", "U+C624", "U+B958", "*", "*", ":", " ", "U+C7A0", "U+C7AC",
      "U+C801", "U+C778", " ", "U+BC84", "U+ADF8", "U+B098", " ", "U+B7F0",
      "U+D0C0", "U+C784", " ", "U+C624", "U+B958", "U+AC00", " ", "U+C788",
      "U+B294", "U+C9C0", " ", "U+D655", "U+C778", "\n", "2", ".", " ",
      "U+1F512", " ", "*", "*", "U+BCF4", "U+C548", " ", "U+CDE8",
      "U+C57D", "U+C810", "*", "*", ":", " ", "U+BCF4", "U+C548", " ",
      "U+AD00", "U+B828", " ", "U+BB38", "U+C81C", "U+C810", "U+C774", " ",
      "U+C788", "U+B294", "U+C9C0", " ", "U+AC80", "U+D1A0", "\n", "3",
      ".", " ", "U+26A1", " ", "*", "*", "U+C131", "U+B2A5", " ", "U+CD5C",
      "U+C801", "U+D654", "*", "*", ":", " ", "U+C131", "U+B2A5", "U+C744",
      " ", "U+AC1C", "U+C120", "U+D560", " ", "U+C218", " ", "U+C788",
      "U+B294", " ", "U+BD80", "U+BD84", " ", "U+C81C", "U+C548", "\n",
      "4", ".", " ", "U+1F4D6", " ", "*", "*", "U+AC00", "U+B3C5",
      "U+C131", "*", "*", ":", " ", "U+CF54", "U+B4DC", "U+C758", " ",
      "U+AC00", "U+B3C5", "U+C131", "U+ACFC", " ", "U+C720", "U+C9C0",
      "U+BCF4", "U+C218", "U+C131", " ", "U+D3C9", "U+AC00", "\n", "5",
      ".", " ", "U+1F3D7", "U+FE0F", " ", "*", "*", "U+C124", "U+ACC4",
      " ", "U+D328", "U+D134", "*", "*", ":", " ", "U+B354", " ", "U+B098",
      "U+C740", " ", "U+C124", "U+ACC4", " ", "U+D328", "U+D134", "U+C774",
      "U+B098", " ", "U+AD6C", "U+C870", " ", "U+C81C", "U+C548", "\n",
      "6", ".", " ", "U+2705", " ", "*", "*", "U+BCA0", "U+C2A4", "U+D2B8",
      " ", "U+D504", "U+B799", "U+D2F0", "U+C2A4", "*", "*", ":", " ",
      "U+D574", "U+B2F9", " ", "U+C5B8", "U+C5B4", "U+C758", " ", "U+BAA8",
      "U+BC94", " ", "U+C0AC", "U+B840", " ", "U+C900", "U+C218", " ",
      "U+C5EC", "U+BD80", "\n", "\n">>

\* between ${langInfo} and ${code}

reviewMiddle ==
    <<"U+B9AC", "U+BDF0", "U+D560", " ", "U+CF54", "U+B4DC", ":", "\n",
      "U+0060", "U+0060", "U+0060", "\n">>

\* after ${code}

reviewTail ==
    <<"\n", "U+0060", "U+0060", "U+0060", "\n", "\n", "U+AC01", " ", "U+D56D", "U+BAA9",
      "U+C5D0", " ", "U+B300", "U+D574", " ", "U+AD6C", "U+CCB4", "U+C801",
      "U+C778", " ", "U+D53C", "U+B4DC", "U+BC31", "U+ACFC", " ", "U+AC1C",
      "U+C120", " ", "U+C81C", "U+C548", "U+C744", " ", "U+D574", "U+C8FC",
      "U+C138", "U+C694", ".">>

langInfoPrefix ==
    <<"U+C774", " ", "U+CF54", "U+B4DC", "U+B294", " ">>

langInfoSuffix ==
    <<"U+B85C", " ", "U+C791", "U+C131", "U+B418", "U+C5C8", "U+C2B5",
      "U+B2C8", "U+B2E4", ".", "\n", "\n">>

\* the code_review prompt's callback; args.language is optional
codeReviewPrompt(args) ==
    LET code == args.code
        language == IF "language" \in DOMAIN args THEN args.language ELSE JUndefined
        langInfo == IF Truthy(language)
                    THEN langInfoPrefix \o JSToString(language) \o langInfoSuffix
                    ELSE << >>
    IN  [messages |->
            <<[role |-> "user",
               content |-> TextItem(reviewHead \o langInfo \o reviewMiddle
                                    \o JSToString(code) \o reviewTail)]>>]


(* ----------------------------- server-info ---------------------------- *)

\* the object literal serverInfo, as its properties in insertion order

serverInfo ==
    <<[key |-> <<"n", "a", "m", "e">>,
       value |-> JStr(<<"M", "y", " ", "M", "C", "P", " ", "S", "e", "r", "v", "e", "r">>)],
      [key |-> <<"v", "e", "r", "s", "i", "o", "n">>,
       value |-> JStr(<<"1", ".", "0", ".", "0">>)],
      [key |-> <<"s", "t", "a", "t", "u", "s">>,
       value |-> JStr(<<"r", "u", "n", "n", "i", "n", "g">>)],
      [key |-> <<"u", "p", "t", "i", "m", "e">>,
       value |-> JStr(<<"7", "2", " ", "h", "o", "u", "r", "s", " ", "3", "5", " ", "m", "i",
  "n", "u", "t", "e", "s">>)],
      [key |-> <<"c", "p", "u", "_", "u", "s", "a", "g", "e">>,
       value |-> JStr(<<"2", "3", ".", "5", "%">>)],
      [key |-> <<"m", "e", "m", "o", "r", "y", "_", "u", "s", "a", "g", "e">>,
       value |-> JStr(<<"1", ".", "2", "G", "B", " ", "/", " ", "8", "G", "B">>)],
      [key |-> <<"d", "i", "s", "k", "_", "u", "s", "a", "g", "e">>,
       value |-> JStr(<<"4", "5", ".", "2", "G", "B", " ", "/", " ", "2", "5", "6", "G", "B">>)],
      [key |-> <<"a", "c", "t", "i", "v", "e", "_", "c", "o", "n", "n", "e", "c", "t",
  "i", "o", "n", "s">>,
       value |-> JNum(142, 1)],
      [key |-> <<"r", "e", "q", "u", "e", "s", "t", "s", "_", "p", "e", "r", "_", "m",
  "i", "n", "u", "t", "e">>,
       value |-> JNum(1250, 1)],
      [key |-> <<"e", "n", "v", "i", "r", "o", "n", "m", "e", "n", "t">>,
       value |-> JStr(<<"p", "r", "o", "d", "u", "c", "t", "i", "o", "n">>)],
      [key |-> <<"r", "e", "g", "i", "o", "n">>,
       value |-> JStr(<<"a", "p", "-", "n", "o", "r", "t", "h", "e", "a", "s", "t", "-", "2">>)],
      [key |-> <<"l", "a", "s", "t", "_", "r", "e", "s", "t", "a", "r", "t">>,
       value |-> JStr(<<"2", "0", "2", "5", "-", "1", "1", "-", "2", "4", "T", "1", "0", ":",
  "3", "0", ":", "0", "0", "Z">>)],
      [key |-> <<"h", "e", "a", "l", "t", "h", "_", "c", "h", "e", "c", "k">>,
       value |-> JStr(<<"h", "e", "a", "l", "t", "h", "y">>)]>>

Quoted(s) == <<"\"">> \o s \o <<"\"">>

\* JSON.stringify of a string or number; the strings of the model need no escape
JSONValue(v) == IF v.t = "string" THEN Quoted(v.v) ELSE NumberToString(v)

\* the properties from the i-th on, one per line, indented by two spaces
RECURSIVE JSONProperties(_, _)
JSONProperties(obj, i) ==
    IF i > Len(obj) THEN << >>
    ELSE <<" ", " ">> \o Quoted(obj[i].key) \o <<":", " ">> \o JSONValue(obj[i].value)
         \o (IF i < Len(obj) THEN <<",">> ELSE << >>) \o <<"\n">>
         \o JSONProperties(obj, i + 1)

\* JSON.stringify(obj, null, 2) of a flat, non-empty object
JSONStringify(obj) == <<"{", "\n">> \o JSONProperties(obj, 1) \o <<"}">>

\* the uri the resource is registered under
serverInfoUri == "server://info"

\* URL.href of the uris of the model, which the URL parser leaves as they are
Href(uri) ==
    IF uri = serverInfoUri
    THEN <<"s", "e", "r", "v", "e", "r", ":", "/", "/", "i", "n", "f", "o">>
    ELSE <<"s", "e", "r", "v", "e", "r", ":", "/", "/", "s", "t", "a", "t", "u", "s">>

applicationJson ==
    <<"a", "p", "p", "l", "i", "c", "a", "t", "i", "o", "n", "/", "j", "s",
      "o", "n">>

\* the server-info resource's callback
serverInfoResource(uri) ==
    [contents |-> <<[uri |-> Href(uri), mimeType |-> applicationJson,
                     text |-> JSONStringify(serverInfo)]>>]

(* --------------------------- generate-image --------------------------- *)
\* an instance of Error carrying a message
JError(m) == [t |-> "object", class |-> "Error", message |-> m]

instanceofError(v) == v.t = "object" /\ v.class = "Error"

imageModel == "black-forest-labs/FLUX.1-schnell"
numInferenceSteps == 5

\* the argument of hfClient.textToImage together with the client's credential
textToImageCall(client, prompt) ==
    [accessToken |-> client.accessToken, provider |-> "auto", model |-> imageModel,
     inputs |-> prompt, parameters |-> [num_inference_steps |-> numInferenceSteps]]

Base64Alphabet ==
    <<"A", "B", "C", "D", "E", "F", "G", "H", "I", "J", "K", "L", "M", "N", "O", "P",
      "Q", "R", "S", "T", "U", "V", "W", "X", "Y", "Z", "a", "b", "c", "d", "e", "f",
      "g", "h", "i", "j", "k", "l", "m", "n", "o", "p", "q", "r", "s", "t", "u", "v",
      "w", "x", "y", "z", "0", "1", "2", "3", "4", "5", "6", "7", "8", "9", "+", "/">>

B64(k) == Base64Alphabet[k + 1]

\* Buffer.from(bytes).toString('base64')
RECURSIVE Base64(_)
Base64(bytes) ==
    IF Len(bytes) = 0 THEN << >>
    ELSE IF Len(bytes) = 1 THEN
        <<B64(bytes[1] \div 4), B64((bytes[1] % 4) * 16), "=", "=">>
    ELSE IF Len(bytes) = 2 THEN
        <<B64(bytes[1] \div 4), B64((bytes[1] % 4) * 16 + bytes[2] \div 16),
          B64((bytes[2] % 16) * 4), "=">>
    ELSE
        <<B64(bytes[1] \div 4), B64((bytes[1] % 4) * 16 + bytes[2] \div 16),
          B64((bytes[2] % 16) * 4 + bytes[3] \div 64), B64(bytes[3] % 64)>>
        \o Base64(SubSeq(bytes, 4, Len(bytes)))

imagePng == <<"i", "m", "a", "g", "e", "/", "p", "n", "g">>

\* the value returned after the try block ran to its end
imageResult(arrayBuffer) ==
    [content |-> <<[type |-> "image", data |-> Base64(arrayBuffer), mimeType |-> imagePng,
                    annotations |-> [audience |-> <<"user">>, priority |-> JNum(9, 10)]]>>]

imageErrorPrefix ==
    <<"U+C774", "U+BBF8", "U+C9C0", " ", "U+C0DD", "U+C131", " ", "U+C624", "U+B958", ":", " ">>

unknownErrorText ==
    <<"U+C54C", " ", "U+C218", " ", "U+C5C6", "U+B294", " ", "U+C624", "U+B958">>

\* imageCatch that never looks at the thrown value
imageCatchGeneric(error) ==
    [content |-> <<TextItem(imageErrorPrefix \o unknownErrorText)>>, isError |-> TRUE]

\* the catch block of the generate-image callback
imageCatch(error) ==
    LET errorMessage == IF instanceofError(error) THEN error.message ELSE unknownErrorText
    IN  [content |-> <<TextItem(imageErrorPrefix \o errorMessage)>>, isError |-> TRUE]

(* ------------------------ schemas and registration -------------------- *)
ZString == [type |-> "string", optional |-> FALSE]
ZNumber == [type |-> "number", optional |-> FALSE]
ZEnum(values) == [type |-> "enum", optional |-> FALSE, values |-> values]
ZOptional(schema) == [schema EXCEPT !.optional = TRUE]

configSchema == [hfToken |-> ZString]

greetingInputSchema  == [name |-> ZString, language |-> ZString]
greetingOutputSchema == [greeting |-> ZString]

\* calcInputSchema with the operator declared as any string
calcInputSchemaAnyOperator == [num1 |-> ZNumber, num2 |-> ZNumber, operator |-> ZString]

calcInputSchema  == [num1 |-> ZNumber, num2 |-> ZNumber,
                     operator |-> ZEnum({Plus, Minus, Times, Divide})]
calcOutputSchema == [result |-> ZNumber]

codeReviewArgsSchema == [code |-> ZString, language |-> ZOptional(ZString)]

currentTimeInputSchema  == [timezone |-> ZString]
currentTimeOutputSchema == [timezone |-> ZString, datetime |-> ZString,
                            date |-> ZString, time |-> ZString]

generateImageInputSchema == [prompt |-> ZString]

\* registeredTools with the greeting callback registered a second time as "echo"
registeredToolsWithAlias ==
    [n \in {"greeting", "calc", "current-time", "generate-image", "echo"} |->
        CASE n \in {"greeting", "echo"} ->
                [callback |-> "greeting", inputSchema |-> greetingInputSchema,
                 outputSchema |-> greetingOutputSchema]
          [] n = "calc" ->
                [callback |-> "calc", inputSchema |-> calcInputSchema,
                 outputSchema |-> calcOutputSchema]
          [] n = "current-time" ->
                [callback |-> "current-time", inputSchema |-> currentTimeInputSchema,
                 outputSchema |-> currentTimeOutputSchema]
          [] OTHER ->
                [callback |-> "generate-image", inputSchema |-> generateImageInputSchema]]

\* the registerTool calls: name, schemas and which callback the name is bound to
registeredTools ==
    [n \in {"greeting", "calc", "current-time", "generate-image"} |->
        CASE n = "greeting" ->
                [callback |-> "greeting", inputSchema |-> greetingInputSchema,
                 outputSchema |-> greetingOutputSchema]
          [] n = "calc" ->
                [callback |-> "calc", inputSchema |-> calcInputSchema,
                 outputSchema |-> calcOutputSchema]
          [] n = "current-time" ->
                [callback |-> "current-time", inputSchema |-> currentTimeInputSchema,
                 outputSchema |-> currentTimeOutputSchema]
          [] OTHER ->
                [callback |-> "generate-image", inputSchema |-> generateImageInputSchema]]

\* the registerPrompt call
registeredPrompts ==
    [n \in {"code_review"} |-> [callback |-> "code_review", inputSchema |-> codeReviewArgsSchema]]

\* the registerResource call, keyed by the resource's uri; it takes no arguments
registeredResources ==
    [u \in {serverInfoUri} |-> [callback |-> "server-info", inputSchema |-> << >>]]

(* ------------------------------ dispatch ------------------------------ *)
\* a value satisfies a field's schema; nothing is coerced
Matches(schema, v) ==
    CASE schema.type = "string" -> v.t = "string"
      [] schema.type = "number" -> v.t = "number"
      [] OTHER                  -> v.t = "string" /\ v.v \in schema.values

\* the fields of the shape that are missing though required, or of the wrong type
Offending(shape, args) ==
    {f \in DOMAIN shape :
        IF f \in DOMAIN args THEN ~Matches(shape[f], args[f]) ELSE ~shape[f].optional}

\* the validated arguments: the declared fields that are present
Parsed(shape, args) == [f \in (DOMAIN shape) \cap (DOMAIN args) |-> args[f]]

Registry(req) ==
    CASE req.method = "tools/call"  -> registeredTools
      [] req.method = "prompts/get" -> registeredPrompts
      [] OTHER                      -> registeredResources

IsRegistered(req) == req.name \in DOMAIN Registry(req)

Descriptor(req) == Registry(req)[req.name]

\* the request may be handed to the callback cb
Accepts(req, cb) ==
    /\ IsRegistered(req)
    /\ Descriptor(req).callback = cb
    /\ Offending(Descriptor(req).inputSchema, req.arguments) = {}

ValidArgs(req) == Parsed(Descriptor(req).inputSchema, req.arguments)

(* ------------------------------- inputs ------------------------------- *)
ADA        == <<"A", "d", "a">>
ENGLISH    == <<"E", "N", "G", "L", "I", "S", "H">>
KLINGON    == <<"k", "l", "i", "n", "g", "o", "n">>
NOT_A_ZONE == <<"N", "o", "t", "/", "A", "Z", "o", "n", "e">>
SKY        == <<"s", "k", "y">>

Names == {ADA, <<"U+BBFC", "U+C218">>}

\* the ten keys, some of them in other letter cases, and strings that are no key
Languages ==
    LanguageKeys
    \cup {<<"K", "o", "r", "e", "a", "n">>, ENGLISH, <<"F", "r", "E", "n", "C", "h">>}
    \cup {KLINGON, << >>, constructorKey, protoKey,
          <<"C", "o", "n", "s", "t", "r", "u", "c", "t", "o", "r">>,
          <<"e", "n", "g", "l", "i", "s", "h", " ">>}

Operands1 == {JNum(n, 1) : n \in -MaxNum1..MaxNum1}
Operands2 == {JNum(n, 1) : n \in -MaxNum2..MaxNum2}

Operators == {Plus, Minus, Times, Divide}

\* operator strings the enum does not list
OtherOperators == {<<"%">>, <<"*", "*">>, << >>}

TimeZones == {tzUTC, tzSeoul, tzNewYork, <<"u", "t", "c">>,
              <<"a", "s", "i", "a", "/", "s", "e", "o", "u", "l">>,
              NOT_A_ZONE, <<"S", "e", "o", "u", "l">>, << >>}

Prompts == {<<"a", " ", "c", "a", "t">>, SKY}

Codes == {<<"x", " ", "=", " ", "1">>, << >>}

CodeLanguages == {<<"p", "y", "t", "h", "o", "n">>, << >>}

Tokens == {<<"h", "f", "_", "A">>, <<"h", "f", "_", "B">>}

\* the bytes of the Blob the image service answers with
Blobs == {<<137, 80, 78, 71>>, <<77, 97, 110>>, <<0, 16>>, << >>}

\* what a failing await can throw: Error instances and values that are none
Thrown == {JError(<<"4", "0", "1">>),
           JError(<<"f", "e", "t", "c", "h", " ", "f", "a", "i", "l", "e", "d">>),
           JStr(<<"q", "u", "o", "t", "a">>)}

ToolCall(name, arguments) == [method |-> "tools/call", name |-> name, arguments |-> arguments]

GreetingArgs ==
    {[name |-> JStr(n), language |-> JStr(l)] : n \in Names, l \in Languages}

\* calc arguments whose quotient, if one is taken, prints exactly (see Printable)
CalcArgs ==
    {a \in [num1 : Operands1, num2 : Operands2, operator : {JStr(o) : o \in Operators}] :
        (a.operator.v = Divide /\ a.num2.n # 0) => Printable(NumDiv(a.num1, a.num2))}

CurrentTimeArgs == {[timezone |-> JStr(z)] : z \in TimeZones}

GenerateImageArgs == {[prompt |-> JStr(p)] : p \in Prompts}

\* arguments with a field missing, of the wrong type or outside the enum
MalformedArgs ==
    {[name |-> JStr(ADA)],
     [name |-> JStr(ADA), language |-> JNum(7, 1)],
     [num1 |-> JNum(1, 1), num2 |-> JNum(2, 1)],
     [num1 |-> JStr(<<"6">>), num2 |-> JNum(3, 1), operator |-> JStr(Times)],
     [timezone |-> JNum(9, 1)],
     [prompt |-> JUndefined],
     << >>}
    \cup {[num1 |-> JNum(6, 1), num2 |-> JNum(3, 1), operator |-> JStr(o)] : o \in OtherOperators}

\* names no registerTool call uses: unregistered ones, another letter case, and
\* the names of the prompt and of the resource
OtherToolNames == {"echo", "Greeting", "code_review", "server-info"}

\* arguments sent along with a name that is not registered
StrayArgs ==
    {[name |-> JStr(ADA), language |-> JStr(korean)],
     [num1 |-> JNum(1, 1), num2 |-> JNum(0, 1), operator |-> JStr(Divide)],
     [prompt |-> JStr(SKY)]}

\* the requests of SingleSpec: one call of a tool that answers without
\* suspending, over the full ranges of its arguments
SingleRequests ==
    {ToolCall("greeting", a) : a \in GreetingArgs \cup MalformedArgs}
    \cup {ToolCall("calc", a) : a \in CalcArgs \cup MalformedArgs}
    \cup {ToolCall("current-time", a) : a \in CurrentTimeArgs \cup MalformedArgs}
    \cup {ToolCall(n, a) : n \in OtherToolNames, a \in StrayArgs}

\* the arguments the requests of Spec draw from
GreetingSample ==
    {[name |-> JStr(ADA), language |-> JStr(l)] :
        l \in {korean, ENGLISH, KLINGON, constructorKey}}

CalcSample ==
    [num1 : {JNum(6, 1), JNum(-3, 1)}, num2 : {JNum(3, 1), JNum(0, 1), JNum(4, 1)},
     operator : {JStr(o) : o \in Operators}]

CurrentTimeSample == {[timezone |-> JStr(z)] : z \in {tzUTC, NOT_A_ZONE}}

MalformedSample ==
    {[name |-> JStr(ADA)],
     [num1 |-> JNum(6, 1), num2 |-> JNum(3, 1), operator |-> JStr(<<"%">>)],
     [prompt |-> JUndefined],
     << >>}

ToolRequests ==
    {ToolCall("greeting", a) : a \in GreetingSample \cup MalformedSample}
    \cup {ToolCall("calc", a) : a \in CalcSample \cup MalformedSample}
    \cup {ToolCall("current-time", a) : a \in CurrentTimeSample \cup MalformedSample}
    \cup {ToolCall("generate-image", a) : a \in GenerateImageArgs \cup MalformedSample}
    \cup {ToolCall(n, a) : n \in OtherToolNames, a \in StrayArgs}

CodeReviewArgs ==
    {[code |-> JStr(c)] : c \in Codes}
    \cup {[code |-> JStr(c), language |-> JStr(l)] : c \in Codes, l \in CodeLanguages}

PromptRequests ==
    {[method |-> "prompts/get", name |-> n, arguments |-> a] :
        n \in {"code_review", "greeting"},
        a \in CodeReviewArgs \cup {<< >>, [code |-> JNum(1, 1)]}}

\* for resources/read, name is the uri asked for
ResourceRequests ==
    {[method |-> "resources/read", name |-> u, arguments |-> << >>] :
        u \in {serverInfoUri, "server://status"}}

\* the requests of Spec
Requests == ToolRequests \cup PromptRequests \cup ResourceRequests

(* ------------------------------- state -------------------------------- *)
VARIABLES
    greetings,    \* the module-level greeting table
    config,       \* the configuration createServer was called with
    hfClient,     \* the InferenceClient built from config.hfToken
    nextId,       \* number of requests received so far
    response,     \* the response sent last
    pending,      \* generate-image invocations suspended at an await
    outbound,     \* per request, the textToImage calls issued for it
    handlerRuns,  \* number of callback invocations so far
    caught        \* the value the catch block of generate-image received last

vars == <<greetings, config, hfClient, nextId, response, pending, outbound, handlerRuns,
          caught>>

ReqIds == 1..MaxReqs

NoResponse == [id |-> 0]

NothingCaught == [id |-> 0]

\* the callback's return value, sent on unchanged
Answer(id, req, cb, result) ==
    [id |-> id, req |-> req, kind |-> "result", callback |-> cb, result |-> result]

Failure(id, req, error, fields) ==
    [id |-> id, req |-> req, kind |-> "error", callback |-> "none", error |-> error,
     fields |-> fields]

Init ==
    /\ greetings = greetingsTable
    /\ config \in [hfToken : Tokens]
    /\ hfClient = [accessToken |-> config.hfToken]
    /\ nextId = 0
    /\ response = NoResponse
    /\ pending = << >>
    /\ outbound = [i \in ReqIds |-> << >>]
    /\ handlerRuns = 0
    /\ caught = NothingCaught

Receive == /\ nextId < MaxReqs
           /\ nextId' = nextId + 1

Untouched == UNCHANGED <<greetings, config, hfClient>>

\* dispatch of a name that is not registered
UnknownOperation(req) ==
    /\ Receive
    /\ ~IsRegistered(req)
    /\ response' = Failure(nextId', req, "unknown operation", {})
    /\ UNCHANGED <<pending, outbound, handlerRuns, caught>>
    /\ Untouched

\* dispatch of arguments that do not fit the declared input shape
InvalidArguments(req) ==
    /\ Receive
    /\ IsRegistered(req)
    /\ Offending(Descriptor(req).inputSchema, req.arguments) # {}
    /\ response' = Failure(nextId', req, "invalid arguments",
                           Offending(Descriptor(req).inputSchema, req.arguments))
    /\ UNCHANGED <<pending, outbound, handlerRuns, caught>>
    /\ Untouched

\* what a step leaves alone when its callback returns without suspending
Synchronous == UNCHANGED <<pending, outbound, caught>> /\ Untouched

\* CallGreeting that stores the word it fell back to under the language asked for
CallGreetingCaching(req) ==
    /\ Receive
    /\ Accepts(req, "greeting")
    /\ response' = Answer(nextId', req, "greeting", greetingHandler(greetings, ValidArgs(req)))
    /\ handlerRuns' = handlerRuns + 1
    /\ greetings' =
          LET lang == toLowerCase(ValidArgs(req).language.v)
          IN  [k \in (DOMAIN greetings) \cup {lang} |->
                  IF k \in DOMAIN greetings THEN greetings[k] ELSE greetings[english]]
    /\ UNCHANGED <<config, hfClient, pending, outbound, caught>>

\* a greeting call with valid arguments
CallGreeting(req) ==
    /\ Receive
    /\ Accepts(req, "greeting")
    /\ response' = Answer(nextId', req, "greeting", greetingHandler(greetings, ValidArgs(req)))
    /\ handlerRuns' = handlerRuns + 1
    /\ Synchronous

\* a calc call with valid arguments
CallCalc(req) ==
    /\ Receive
    /\ Accepts(req, "calc")
    /\ response' = Answer(nextId', req, "calc", calcHandler(ValidArgs(req)))
    /\ handlerRuns' = handlerRuns + 1
    /\ Synchronous

\* a current-time call with valid arguments, at instant now
CallCurrentTime(req, now) ==
    /\ Receive
    /\ Accepts(req, "current-time")
    /\ response' = Answer(nextId', req, "current-time", currentTimeHandler(ValidArgs(req), now))
    /\ handlerRuns' = handlerRuns + 1
    /\ Synchronous

\* the code_review prompt is asked for with valid arguments
GetCodeReview(req) ==
    /\ Receive
    /\ Accepts(req, "code_review")
    /\ response' = Answer(nextId', req, "code_review", codeReviewPrompt(ValidArgs(req)))
    /\ handlerRuns' = handlerRuns + 1
    /\ Synchronous

\* the server-info resource is read
ReadServerInfo(req) ==
    /\ Receive
    /\ Accepts(req, "server-info")
    /\ response' = Answer(nextId', req, "server-info", serverInfoResource(req.name))
    /\ handlerRuns' = handlerRuns + 1
    /\ Synchronous

\* generate-image up to its first await: the outbound call is issued
CallGenerateImage(req) ==
    /\ Receive
    /\ Accepts(req, "generate-image")
    /\ outbound' = [outbound EXCEPT ![nextId'] =
                        Append(@, textToImageCall(hfClient, ValidArgs(req).prompt.v))]
    /\ pending' = [i \in (DOMAIN pending) \cup {nextId'} |->
                      IF i = nextId' THEN [req |-> req, pc |-> "textToImage", image |-> << >>]
                      ELSE pending[i]]
    /\ handlerRuns' = handlerRuns + 1
    /\ UNCHANGED <<response, caught>>
    /\ Untouched

Finish(id, result) ==
    /\ response' = Answer(id, pending[id].req, "generate-image", result)
    /\ pending' = [i \in (DOMAIN pending) \ {id} |-> pending[i]]

\* the awaited textToImage promise fulfils with a Blob
TextToImageResolves(id, blob) ==
    /\ id \in DOMAIN pending
    /\ pending[id].pc = "textToImage"
    /\ pending' = [pending EXCEPT ![id].pc = "arrayBuffer", ![id].image = blob]
    /\ UNCHANGED <<response, outbound, handlerRuns, nextId, caught>>
    /\ Untouched

\* TextToImageRejects that issues the call again instead of answering
TextToImageRejectsRetrying(id, error) ==
    /\ id \in DOMAIN pending
    /\ pending[id].pc = "textToImage"
    /\ Len(outbound[id]) < 2
    /\ outbound' = [outbound EXCEPT ![id] =
                       Append(@, textToImageCall(hfClient, pending[id].req.arguments.prompt.v))]
    /\ UNCHANGED <<response, pending, handlerRuns, nextId, caught>>
    /\ Untouched

\* the awaited textToImage promise rejects: the catch block answers
TextToImageRejects(id, error) ==
    /\ id \in DOMAIN pending
    /\ pending[id].pc = "textToImage"
    /\ Finish(id, imageCatch(error))
    /\ caught' = [id |-> id, error |-> error]
    /\ UNCHANGED <<outbound, handlerRuns, nextId>>
    /\ Untouched

\* blob.arrayBuffer() fulfils: the image is encoded and returned
ArrayBufferResolves(id) ==
    /\ id \in DOMAIN pending
    /\ pending[id].pc = "arrayBuffer"
    /\ Finish(id, imageResult(pending[id].image))
    /\ UNCHANGED <<outbound, handlerRuns, nextId, caught>>
    /\ Untouched

\* blob.arrayBuffer() throws or rejects: the catch block answers
ArrayBufferRejects(id, error) ==
    /\ id \in DOMAIN pending
    /\ pending[id].pc = "arrayBuffer"
    /\ Finish(id, imageCatch(error))
    /\ caught' = [id |-> id, error |-> error]
    /\ UNCHANGED <<outbound, handlerRuns, nextId>>
    /\ Untouched

Next ==
    \/ \E req \in Requests : UnknownOperation(req)
    \/ \E req \in Requests : InvalidArguments(req)
    \/ \E req \in Requests : CallGreeting(req)
    \/ \E req \in Requests : CallCalc(req)
    \/ \E req \in Requests, now \in Instants : CallCurrentTime(req, now)
    \/ \E req \in Requests : GetCodeReview(req)
    \/ \E req \in Requests : ReadServerInfo(req)
    \/ \E req \in Requests : CallGenerateImage(req)
    \/ \E id \in ReqIds, blob \in Blobs : TextToImageResolves(id, blob)
    \/ \E id \in ReqIds, error \in Thrown : TextToImageRejects(id, error)
    \/ \E id \in ReqIds : ArrayBufferResolves(id)
    \/ \E id \in ReqIds, error \in Thrown : ArrayBufferRejects(id, error)

Spec == Init /\ [][Next]_vars

\* one request, a call of greeting, calc or current-time, over the full ranges
\* of the arguments
SingleNext ==
    \/ \E req \in SingleRequests : nextId = 0 /\ UnknownOperation(req)
    \/ \E req \in SingleRequests : nextId = 0 /\ InvalidArguments(req)
    \/ \E req \in SingleRequests : nextId = 0 /\ CallGreeting(req)
    \/ \E req \in SingleRequests : nextId = 0 /\ CallCalc(req)
    \/ \E req \in SingleRequests, now \in Instants : nextId = 0 /\ CallCurrentTime(req, now)

SingleSpec == Init /\ [][SingleNext]_vars

(* ------------------------------ properties ---------------------------- *)
IsErrorResult(r) == "isError" \in DOMAIN r /\ r.isError = TRUE

HasStructured(r) == "structuredContent" \in DOMAIN r

\* the last response carries the return value of callback cb
Answered(cb) == response.id # 0 /\ response.kind = "result" /\ response.callback = cb

\* a language string names table key k when they agree up to letter case
NamesKey(language, k) == toLowerCase(language) = toLowerCase(k)

Hello == <<"H", "e", "l", "l", "o">>

\* the greeting the table prescribes for name and language
TableGreeting(name, language) ==
    LET word == IF \E k \in LanguageKeys : NamesKey(language, k)
                THEN greetingsTable[CHOOSE k \in LanguageKeys : NamesKey(language, k)]
                ELSE Hello
    IN  word \o <<",", " ">> \o name \o <<"!">>

\* C1: a greeting is the table's word for the language (compared without
\* regard to letter case), or "Hello" for any string that is none of the ten
\* keys, followed by ", <name>!"; the text item and the structured field
\* greeting carry that same string.
C1_GreetingFromTable ==
    Answered("greeting") =>
        LET a == response.req.arguments
            expected == TableGreeting(a.name.v, a.language.v)
        IN  /\ response.result.content = <<TextItem(expected)>>
            /\ response.result.structuredContent = [greeting |-> JStr(expected)]

\* C2: calc answers with an error-flagged result, a text message and no
\* structured result, exactly when the operator is '/' and num2 is 0.
C2_DivisionByZeroIsTheOnlyError ==
    Answered("calc") =>
        LET a == response.req.arguments
            r == response.result
        IN  /\ IsErrorResult(r) <=> (a.operator.v = <<"/">> /\ a.num2 = JNum(0, 1))
            /\ IsErrorResult(r) =>
                  /\ ~HasStructured(r)
                  /\ Len(r.content) = 1
                  /\ r.content[1].type = "text"
                  /\ r.content[1].text # << >>

C2_Witness ==
    /\ Answered("calc")
    /\ response.req.arguments.operator.v = <<"/">>
    /\ response.req.arguments.num1 = JNum(-6, 1)
    /\ response.req.arguments.num2 = JNum(0, 1)
    /\ IsErrorResult(response.result)

\* x is the exact value of a op b, for integers a and b (b # 0 when op is '/')
IsValueOf(x, a, op, b) ==
    /\ x.t = "number"
    /\ x.d > 0
    /\ GCD(Abs(x.n), x.d) = 1
    /\ CASE op = <<"+">> -> x.n = (a + b) * x.d
         [] op = <<"-">> -> x.n = (a - b) * x.d
         [] op = <<"*">> -> x.n = (a * b) * x.d
         [] OTHER        -> x.n * b = a * x.d

\* the calc call of the last response had these arguments
CalcOf(a, op, b) ==
    /\ Answered("calc")
    /\ response.req.arguments = [num1 |-> JNum(a, 1), num2 |-> JNum(b, 1), operator |-> JStr(op)]

\* C3: but for a division by zero, calc answers with a success result whose
\* structured field result is num1 operator num2 and whose text is
\* "<num1> <operator> <num2> = <result>"; calc(6, 3, '*') gives 18 and
\* "6 * 3 = 18".
C3_CalcResultAndText ==
    /\ Answered("calc") =>
        LET a == response.req.arguments
            r == response.result
        IN  ~(a.operator.v = <<"/">> /\ a.num2 = JNum(0, 1)) =>
               /\ ~IsErrorResult(r)
               /\ DOMAIN r.structuredContent = {"result"}
               /\ IsValueOf(r.structuredContent.result, a.num1.n, a.operator.v, a.num2.n)
               /\ r.content =
                    <<TextItem(NumberToString(a.num1) \o <<" ">> \o a.operator.v \o <<" ">>
                               \o NumberToString(a.num2) \o <<" ", "=", " ">>
                               \o NumberToString(r.structuredContent.result))>>
    /\ CalcOf(6, <<"*">>, 3) =>
          /\ response.result.structuredContent.result = [t |-> "number", n |-> 18, d |-> 1]
          /\ response.result.content[1].text = <<"6", " ", "*", " ", "3", " ", "=", " ", "1", "8">>
    /\ CalcOf(-3, <<"/">>, 2) =>
          response.result.content[1].text =
              <<"-", "3", " ", "/", " ", "2", " ", "=", " ", "-", "1", ".", "5">>
    /\ CalcOf(1, <<"/">>, -2) =>
          response.result.content[1].text =
              <<"1", " ", "/", " ", "-", "2", " ", "=", " ", "-", "0", ".", "5">>
    /\ CalcOf(0, <<"-">>, 3) =>
          response.result.content[1].text = <<"0", " ", "-", " ", "3", " ", "=", " ", "-", "3">>

C3_Witness ==
    /\ CalcOf(6, <<"*">>, 3)
    /\ response.result.structuredContent.result.n = 18

\* what a thrown value says about the failure: an Error's message, and the
\* string form of any other value
FailureDescription(error) == IF instanceofError(error) THEN error.message ELSE JSToString(error)

\* the last response is the answer of a generate-image call whose await failed
ImageFailed == Answered("generate-image") /\ caught.id = response.id

\* C4 as stated: whatever value the failed await threw, Error instance or
\* not, the answer is error-flagged and its text contains the description of
\* the failure.
C4_ErrorCarriesDescription ==
    ImageFailed =>
        /\ IsErrorResult(response.result)
        /\ Len(response.result.content) = 1
        /\ response.result.content[1].type = "text"
        /\ Contains(response.result.content[1].text, FailureDescription(caught.error))

\* C4, amended: a failed await always ends in an error-flagged answer with
\* one text item; the text contains the message when the thrown value is an
\* Error instance, and is the fixed "unknown error" text otherwise.
C4_ErrorCarriesMessageOfErrors ==
    ImageFailed =>
        /\ IsErrorResult(response.result)
        /\ ~HasStructured(response.result)
        /\ Len(response.result.content) = 1
        /\ response.result.content[1].type = "text"
        /\ IF instanceofError(caught.error)
           THEN /\ Contains(response.result.content[1].text, caught.error.message)
                /\ response.result.content[1].text # imageErrorPrefix \o unknownErrorText
           ELSE response.result.content[1].text = imageErrorPrefix \o unknownErrorText

C4_Witness ==
    /\ ImageFailed
    /\ caught.error = JStr(<<"q", "u", "o", "t", "a">>)
    /\ ~Contains(response.result.content[1].text, <<"q", "u", "o", "t", "a">>)

\* the zone names of the model the runtime recognises, in lower case
RecognisedLower ==
    {<<"u", "t", "c">>, <<"a", "s", "i", "a", "/", "s", "e", "o", "u", "l">>,
     <<"a", "m", "e", "r", "i", "c", "a", "/", "n", "e", "w", "_", "y", "o", "r", "k">>}

NonEmptyString(v) == v.t = "string" /\ v.v # << >>

\* C5: current-time answers with an error-flagged result without structured
\* output for a timezone string that is no recognised identifier
\* ('Not/AZone'), and for a recognised one ('UTC') with a non-error result
\* whose datetime, date and time are non-empty strings and whose timezone is
\* the input.
C5_TimezoneValidity ==
    Answered("current-time") =>
        LET timezone == response.req.arguments.timezone
            r == response.result
        IN  /\ toLowerCase(timezone.v) \notin RecognisedLower =>
                 IsErrorResult(r) /\ ~HasStructured(r)
            /\ toLowerCase(timezone.v) \in RecognisedLower =>
                 /\ ~IsErrorResult(r)
                 /\ NonEmptyString(r.structuredContent.datetime)
                 /\ NonEmptyString(r.structuredContent.date)
                 /\ NonEmptyString(r.structuredContent.time)
                 /\ r.structuredContent.timezone = timezone
            /\ timezone.v = <<"N", "o", "t", "/", "A", "Z", "o", "n", "e">> => IsErrorResult(r)
            /\ timezone.v = <<"U", "T", "C">> => ~IsErrorResult(r)

C5_Witness ==
    /\ Answered("current-time")
    /\ response.req.arguments.timezone.v = <<"u", "t", "c">>
    /\ response.result.structuredContent.timezone.v = <<"u", "t", "c">>
    /\ response.result.structuredContent.time = JStr(<<"1", "4", ":", "0", "3", ":", "0", "5">>)

\* a structured value has exactly the fields of the shape, each of its type
Conforms(shape, structured) ==
    /\ DOMAIN structured = DOMAIN shape
    /\ \A f \in DOMAIN shape :
          IF shape[f].type = "number"
          THEN typeof(structured[f]) = "number"
          ELSE typeof(structured[f]) = "string"

\* the output shapes as C6 lists them
DeclaredOutput(cb) ==
    CASE cb = "greeting" -> [greeting |-> [type |-> "string"]]
      [] cb = "calc"     -> [result |-> [type |-> "number"]]
      [] OTHER           -> [timezone |-> [type |-> "string"], datetime |-> [type |-> "string"],
                             date |-> [type |-> "string"], time |-> [type |-> "string"]]

\* C6: for greeting, calc and current-time, a success result carries
\* structured content with exactly the declared fields and types, and an
\* error-flagged result carries none.
C6_StructuredMatchesOutputShape ==
    \A cb \in {"greeting", "calc", "current-time"} :
        Answered(cb) =>
            /\ DeclaredOutput(cb) =
                  [f \in DOMAIN registeredTools[cb].outputSchema |->
                      [type |-> registeredTools[cb].outputSchema[f].type]]
            /\ IF IsErrorResult(response.result)
               THEN ~HasStructured(response.result)
               ELSE /\ HasStructured(response.result)
                    /\ Conforms(DeclaredOutput(cb), response.result.structuredContent)

C6_Witness ==
    /\ Answered("calc")
    /\ ~IsErrorResult(response.result)
    /\ response.result.structuredContent.result = [t |-> "number", n |-> 3, d |-> 2]

\* the four names C7 lists
ToolNames == {"greeting", "calc", "current-time", "generate-image"}

\* this step sends a response
Responds == response' # response

\* C7: a tools/call request for a name that is none of the four registered
\* ones is answered with an "unknown operation" error, and the step that
\* answers it runs no callback and issues no outbound call.
C7_UnknownOperationRunsNothing ==
    [][(Responds /\ response'.req.method = "tools/call" /\ response'.req.name \notin ToolNames) =>
          /\ response'.kind = "error"
          /\ response'.error = "unknown operation"
          /\ response'.callback = "none"
          /\ handlerRuns' = handlerRuns
          /\ outbound' = outbound
          /\ pending' = pending]_vars

\* an unknown name is refused while a generate-image invocation is suspended
C7_Witness ==
    /\ response.id = 2
    /\ response.req.method = "tools/call"
    /\ response.req.name = "echo"
    /\ response.kind = "error"
    /\ handlerRuns = 1
    /\ 1 \in DOMAIN pending

IsString(args, f) == f \in DOMAIN args /\ args[f].t = "string"
IsNumber(args, f) == f \in DOMAIN args /\ args[f].t = "number"

\* the arguments have every required field of the tool's or prompt's declared
\* input shape, each of the declared type
FitsInputShape(name, args) ==
    CASE name = "greeting"     -> IsString(args, "name") /\ IsString(args, "language")
      [] name = "calc"         -> /\ IsNumber(args, "num1")
                                  /\ IsNumber(args, "num2")
                                  /\ IsString(args, "operator")
                                  /\ args.operator.v \in {<<"+">>, <<"-">>, <<"*">>, <<"/">>}
      [] name = "current-time" -> IsString(args, "timezone")
      [] name = "generate-image" -> IsString(args, "prompt")
      [] name = "code_review"  -> /\ IsString(args, "code")
                                  /\ "language" \in DOMAIN args => IsString(args, "language")
      [] OTHER                 -> TRUE

\* the request this step received
Received == IF nextId' \in DOMAIN pending' THEN pending'[nextId'].req ELSE response'.req

KnownName(req) ==
    \/ req.method = "tools/call" /\ req.name \in ToolNames
    \/ req.method = "prompts/get" /\ req.name = "code_review"

\* C8: a callback runs only on arguments that fit the declared input shape; a
\* request with a missing required field or a field of the wrong type is
\* answered with "invalid arguments" and no callback runs.  So calc never
\* runs with an operator outside {+,-,*,/} and the result it formats and
\* returns is always an assigned number.
C8_ValidatedBeforeHandler ==
    [][nextId' # nextId =>
          /\ (KnownName(Received) /\ ~FitsInputShape(Received.name, Received.arguments)) =>
                /\ Responds
                /\ response'.kind = "error"
                /\ response'.error = "invalid arguments"
                /\ response'.fields # {}
                /\ handlerRuns' = handlerRuns
          /\ handlerRuns' # handlerRuns =>
                /\ FitsInputShape(Received.name, Received.arguments)
                /\ (Responds /\ response'.callback = "calc" /\ ~IsErrorResult(response'.result)) =>
                      /\ response'.result.structuredContent.result.t = "number"
                      /\ ~Contains(response'.result.content[1].text,
                                   <<"u", "n", "d", "e", "f", "i", "n", "e", "d">>)]_vars

\* calc was asked for 6 % 3 and refused
C8_Witness ==
    /\ response.id # 0
    /\ response.req.name = "calc"
    /\ "operator" \in DOMAIN response.req.arguments
    /\ response.req.arguments.operator.v = <<"%">>
    /\ response.kind = "error"
    /\ response.error = "invalid arguments"
    /\ response.fields = {"operator"}

\* the one call generate-image issues for a prompt
TheCall(prompt) ==
    [accessToken |-> config.hfToken, provider |-> "auto",
     model |-> "black-forest-labs/FLUX.1-schnell", inputs |-> prompt,
     parameters |-> [num_inference_steps |-> 5]]

\* C9: a generate-image request issues exactly one outbound call, with the
\* configured credential, the model 'black-forest-labs/FLUX.1-schnell' and 5
\* steps; no second call follows a failure, and the request ends with one
\* image content item or one error result.
C9_OneOutboundCall ==
    /\ \A id \in ReqIds : Len(outbound[id]) <= 1
    /\ \A id \in DOMAIN pending :
          outbound[id] = <<TheCall(pending[id].req.arguments.prompt.v)>>
    /\ Answered("generate-image") =>
          /\ outbound[response.id] = <<TheCall(response.req.arguments.prompt.v)>>
          /\ Len(response.result.content) = 1
          /\ IF IsErrorResult(response.result)
             THEN response.result.content[1].type = "text"
             ELSE response.result.content[1].type = "image"
          /\ caught.id = response.id <=> IsErrorResult(response.result)
    /\ (response.id # 0 /\ response.kind = "result" /\ response.callback # "generate-image") =>
          outbound[response.id] = << >>

\* a request whose call failed has ended, with the one call it issued
C9_Witness ==
    /\ Answered("generate-image")
    /\ IsErrorResult(response.result)
    /\ caught.id = response.id
    /\ Len(outbound[response.id]) = 1

\* what the request yields on a server that has served nothing yet
FreshResult(req) ==
    CASE req.name = "greeting"    -> greetingHandler(greetingsTable, req.arguments)
      [] req.name = "calc"        -> calcHandler(req.arguments)
      [] req.name = "code_review" -> codeReviewPrompt(req.arguments)
      [] OTHER                    -> serverInfoResource(req.name)

\* C10: no step, whatever it interleaves with and however it ends, changes
\* the greeting table or the configured credential, and every greeting, calc,
\* server-info and code_review answer is the one the same request gets on a
\* fresh server.
C10_NoSharedState ==
    [][/\ greetings' = greetingsTable
       /\ config' = config
       /\ hfClient' = [accessToken |-> config.hfToken]
       /\ (Responds /\ response'.kind = "result"
               /\ response'.callback \in {"greeting", "calc", "code_review", "server-info"}) =>
             response'.result = FreshResult(response'.req)]_vars

\* a greeting is answered by a server on which a generate-image call has failed
C10_Witness ==
    /\ Answered("greeting")
    /\ response.id > 1
    /\ caught.id # 0
    /\ response.result.content[1].text =
          <<"U+C548", "U+B155", "U+D558", "U+C138", "U+C694", ",", " ", "A", "d", "a", "!">>

====
